---- MODULE Spec2Model ----
(***************************************************************************)
(* Connection pool scheduler and job/result lifecycle of trilliant-tedious *)
(* (SQLServerPool.js, QueryJobs.js with the result cache).                 *)
(*                                                                         *)
(* One action per handler of the event loop.  A handler runs to its end    *)
(* (or to its first await) before another starts, so every action is one   *)
(* synchronous run of JavaScript code.  The driver (tedious) and the cache *)
(* store (DiskCache) are the environment: their signals and completions    *)
(* are chosen nondeterministically.                                        *)
(*                                                                         *)
(* Reading notes on the source:                                            *)
(*  - SQLServerPool.js:62-78 register the listeners on `con`, a name no    *)
(*    declaration of the file binds.  The model admits both outcomes: the  *)
(*    ReferenceError (AcquireCreateThrows: the worker is never pushed) and *)
(*    the reading con = worker.con, the connection built at line 57.       *)
(*  - SQLServerPool.js:46-47: splice returns an array, so `broken.con` is  *)
(*    undefined and `.close()` throws a TypeError after the worker left    *)
(*    the pool; the promise of acquireWorker is rejected.                  *)
(*  - loadQueries passes cached definitions through createCacheWrapper,    *)
(*    which the sources do not contain; it is taken to hand the function  *)
(*    through unchanged (createCacheWrapper).                              *)
(*  - the cache store returns on get what the last set under the key put,  *)
(*    until the entry expires (Expire).                                    *)
(*  - exec() (deprecated raw queue entry) and exit() are not modelled.     *)
(***************************************************************************)
EXTENDS Integers, Sequences, FiniteSets, TLC

----------------------------------------------------------------------------
(* Bounds of the model *)

\* jobs created (query-function invocations)
MaxJobs == 2
\* connections ever constructed
MaxWorkers == 3
\* requests issued per job (first attempt plus retries)
MaxIssue == 2
\* calls of start()
MaxStarts == 2
\* failures the environment injects: connection errors and ends, socket
\* errors, requests completing with an error
MaxFaults == 2
\* scheduler ticks explored below the slow interval 2000, and below the
\* ceiling 100
MaxSlowTicks == 2
MaxFastTicks == 3
\* the budgets of the specification with outside acquireWorker() calls
AcqStarts == 1
AcqFaults == 1
AcqJobs == 1
\* ticks explored below the ceiling when acquireWorker is also called from
\* outside: enough to bring the interval down to its floor
AcqFastTicks == 10
\* the budgets of the specification with fairness: one call of start(), one
\* request completing with an error
LiveStarts == 1
LiveFaults == 1
\* the budgets of the specification of the cached query functions
CacheStarts == 2
CacheFaults == 1
CacheWorkers == 2
\* pool capacity: constants.js:26 sets MAX_POOL to 16; the model scales it
\* down so that the pool fills within the bounds
MAX_POOL == 2

----------------------------------------------------------------------------
(* constants.js: STATUS *)

STATUS == [NEW |-> "NEW", IDLE |-> "IDLE", BUSY |-> "BUSY", FAIL |-> "FAIL"]

\* status of a worker slot whose Connection has not been constructed
NoWorker == "NONE"

----------------------------------------------------------------------------
(* JavaScript values that occur as query arguments *)

Num(n) == [t |-> "number", n |-> n, kv |-> <<>>]
Fn == [t |-> "function", n |-> 0, kv |-> <<>>]
\* an object: its own enumerable properties in insertion order
Obj(kv) == [t |-> "object", n |-> 0, kv |-> kv]
P(k, v) == [k |-> k, v |-> v]

\* Array.prototype.sort() on strings: code-unit order of the keys in use
Alphabet == <<"a", "b", "x", "y">>
KeyRank(k) == CHOOSE i \in 1..Len(Alphabet) : Alphabet[i] = k

RECURSIVE InsertKey(_, _)
InsertKey(k, s) ==
  IF s = <<>> THEN <<k>>
  ELSE IF KeyRank(k) <= KeyRank(Head(s)) THEN <<k>> \o s
  ELSE <<Head(s)>> \o InsertKey(k, Tail(s))

RECURSIVE SortKeys(_)
\* SortKeysUnsorted: the keys as pushed by the for-in loop, keys.sort() left out
SortKeysUnsorted(s) == s
SortKeys(s) == IF s = <<>> THEN <<>> ELSE InsertKey(Head(s), SortKeys(Tail(s)))

\* obj[cur]
Prop(obj, k) == (CHOOSE i \in 1..Len(obj.kv) : obj.kv[i].k = k)

RECURSIVE getCanonicalJSON(_)
RECURSIVE ReduceKeys(_, _, _)
ReduceKeys(obj, keys, i) ==
  IF i > Len(keys) THEN ""
  ELSE (IF i > 1 THEN "," ELSE "") \o "\"" \o keys[i] \o "\":"
       \o getCanonicalJSON(obj.kv[Prop(obj, keys[i])].v)
       \o ReduceKeys(obj, keys, i + 1)

getCanonicalJSON(obj) ==
  IF obj.t = "object"
  THEN "{" \o ReduceKeys(obj, SortKeys([i \in 1..Len(obj.kv) |-> obj.kv[i].k]), 1) \o "}"
  ELSE IF obj.t = "function" THEN "null"
  ELSE ToString(obj.n)

\* sha256 hex digest, taken as injective on its input
Digest(s) == "sha256(" \o s \o ")"

getCacheKey(uuid, obj) == Digest(uuid \o "::" \o getCanonicalJSON(obj))

\* argument objects the callers pass
ArgA == Obj(<<P("a", Num(1)), P("b", Obj(<<P("x", Num(1)), P("y", Fn)>>))>>)
ArgB == Obj(<<P("b", Obj(<<P("y", Fn), P("x", Num(1))>>)), P("a", Num(1))>>)
ArgC == Obj(<<P("a", Num(2))>>)
ArgD == Obj(<<P("b", Obj(<<P("x", Num(1)), P("y", Fn)>>)), P("a", Num(1))>>)
ArgE == Obj(<<P("a", Num(1)), P("b", Obj(<<P("y", Fn), P("x", Num(1))>>))>>)
ArgF == Obj(<<P("a", Num(1)), P("b", Num(2))>>)
ArgG == Obj(<<P("b", Num(2)), P("a", Num(1))>>)
ArgH == Obj(<<P("a", Num(2)), P("b", Num(1))>>)
ArgI == Obj(<<>>)
ArgObjs == {ArgA, ArgB, ArgC, ArgD, ArgE, ArgF, ArgG, ArgH, ArgI}

\* the same key/value pairs, recursively, whatever the insertion order
RECURSIVE SameContent(_, _)
SameContent(x, y) ==
  /\ x.t = y.t
  /\ x.n = y.n
  /\ Len(x.kv) = Len(y.kv)
  /\ \A i \in 1..Len(x.kv) :
       \E j \in 1..Len(y.kv) :
         /\ x.kv[i].k = y.kv[j].k
         /\ SameContent(x.kv[i].v, y.kv[j].v)

----------------------------------------------------------------------------
(* Query definitions handed to loadQueries, and driver results *)

QueryIds == {"cb", "cc", "pr", "pc"}

\* QueryJobs.js loadQueries: one definition per id, uuid assigned at load
QueryDefs ==
  [id \in QueryIds |->
     [usePromise |-> id \in {"pr", "pc"},
      cache |-> id \in {"cc", "pc"},
      flatten |-> id = "pc",
      uuid |-> "uuid-" \o id]]

\* a tedious row: column name -> column object carrying .value
Row1 == [a |-> [value |-> 1, metadata |-> "int"]]

\* QueryJobs.js flattenResults
flattenResults(rows) ==
  [i \in 1..Len(rows) |-> [f \in DOMAIN rows[i] |-> rows[i][f].value]]

Undefined == -1

\* what the driver hands to a request's completion callback
Ok(rc, rows) == [err |-> "none", rowCount |-> rc, rows |-> rows]
Err(code) == [err |-> code, rowCount |-> Undefined, rows |-> <<>>]
Outcomes == {Ok(0, <<>>), Ok(1, <<Row1>>), Err("ETIMEOUT"), Err("ESOCKET"), Err("EREQUEST")}

\* what a caller receives
NoVal == [kind |-> "none", err |-> "none", rowCount |-> Undefined, raw |-> <<>>, flat |-> <<>>]
Called(err, rc, rows) == [kind |-> "callback", err |-> err, rowCount |-> rc, raw |-> rows, flat |-> <<>>]
Resolved(raw, flat) == [kind |-> "resolve", err |-> "none", rowCount |-> Undefined, raw |-> raw, flat |-> flat]
Rejected == [kind |-> "reject", err |-> "none", rowCount |-> Undefined, raw |-> <<>>, flat |-> <<>>]

\* the calls the callers make: query id and argument object
Invocations == {<<"cb", ArgC>>, <<"pr", ArgA>>}
\* the calls of the functions loaded with a cache policy
CachedInvocations == {<<"cc", ArgC>>, <<"pc", ArgA>>, <<"pc", ArgB>>}
\* every cached function on every argument object
KeyInvocations == {"cc", "pc"} \X ArgObjs

\* cache keys that can occur, and a cache slot
CacheKeys == {getCacheKey(QueryDefs[d].uuid, a) : d \in {"cc", "pc"}, a \in ArgObjs}
NoEntry == [present |-> FALSE, rowCount |-> Undefined, rows |-> <<>>, val |-> NoVal]
\* val: what the completion that wrote the entry handed to its own caller
Entry(rc, rows, val) == [present |-> TRUE, rowCount |-> rc, rows |-> rows, val |-> val]

----------------------------------------------------------------------------
VARIABLES
  running,       \* SQLServerPool #running
  queueTimer,    \* SQLServerPool #queueTimer
  pool,          \* SQLServerPool #pool: sequence of worker ids
  requestQueue,  \* SQLServerPool #requestQueue: sequence of job ids
  workers,       \* worker objects: status, connection, pending promise, listener
  jobs,          \* job objects built by createJob, with their in-flight requests
  cache,         \* ResultCache contents
  timers,        \* pending setImmediate/setTimeout callbacks of #queueProc
  last,          \* the latest acquireWorker() call: what its promise settled
                 \* with, and whether it reached the capacity test with a full pool
  left           \* what the exploration may still do: calls of start(), injected
                 \* failures, connections built, query-function calls, and
                 \* (fast) how far below the ceiling the interval is followed

vars == <<running, queueTimer, pool, requestQueue, workers, jobs, cache, last,
          timers, left>>

WorkerIds == 1..MaxWorkers
JobIds == 1..MaxJobs

NoWorkerRec == [status |-> NoWorker, conn |-> "none", acq |-> "none", sock |-> 0]
NoJobRec == [def |-> "cb", params |-> ArgC, cacheKey |-> "", worker |-> 0, pc |-> "none",
             inflight |-> 0, issued |-> 0, err |-> "none", calls |-> 0, got |-> NoVal]


\* the exploration budget of the main specification
Budget == [starts |-> MaxStarts, faults |-> MaxFaults, workers |-> MaxWorkers, jobs |-> MaxJobs,
           fast |-> MaxFastTicks]

\* the state after the constructor and loadQueries; ConstructScheduled: a
\* constructor that arms the first tick itself
ConstructScheduled ==
  /\ running = TRUE
  /\ queueTimer = 100
  /\ pool = <<>>
  /\ requestQueue = <<>>
  /\ workers = [w \in WorkerIds |-> NoWorkerRec]
  /\ jobs = [j \in JobIds |-> NoJobRec]
  /\ cache = [k \in CacheKeys |-> NoEntry]
  /\ timers = 1
  /\ last = [out |-> "none", cap |-> FALSE]
Construct ==
  /\ running = TRUE
  /\ queueTimer = 100
  /\ pool = <<>>
  /\ requestQueue = <<>>
  /\ workers = [w \in WorkerIds |-> NoWorkerRec]
  /\ jobs = [j \in JobIds |-> NoJobRec]
  /\ cache = [k \in CacheKeys |-> NoEntry]
  /\ timers = 0
  /\ last = [out |-> "none", cap |-> FALSE]

Init == Construct /\ left = Budget

Max(a, b) == IF a >= b THEN a ELSE b
Min(a, b) == IF a <= b THEN a ELSE b
Push(q, x) == Append(q, x)
Count(q, x) == Cardinality({i \in 1..Len(q) : q[i] = x})
RemoveAt(q, i) == SubSeq(q, 1, i - 1) \o SubSeq(q, i + 1, Len(q))

----------------------------------------------------------------------------
(* QueryJobs.js: query functions and result handlers *)

\* QueryJobs.js:228-234: the function loadQueries stores under each id; a
\* definition with a cache policy goes through createCacheWrapper.  The
\* wrapper consults the cache by the job's key and delegates to the wrapped
\* function on a miss; the wrapped function does the same lookup itself, so
\* the wrapper adds no state change of its own.
createCacheWrapper(fn) == fn

loadQueries ==
  [id \in QueryIds |->
     LET fn == IF QueryDefs[id].usePromise THEN "promise" ELSE "callback"
     IN  IF QueryDefs[id].cache THEN createCacheWrapper(fn) ELSE fn]

NewJob == CHOOSE j \in JobIds : jobs[j].pc = "none" /\ \A i \in 1..(j - 1) : jobs[i].pc # "none"

\* QueryJobs.js createJob
createJob(d, a) ==
  [NoJobRec EXCEPT !.def = d, !.params = a, !.worker = 0,
     !.cacheKey = IF QueryDefs[d].cache THEN getCacheKey(QueryDefs[d].uuid, a) ELSE ""]

\* the zero-row and flatten rules of the promise style
Shape(d, rc, rows) ==
  IF rc = 0 THEN Resolved(<<>>, <<>>)
  ELSE IF ~QueryDefs[d].flatten THEN Resolved(rows, <<>>)
  ELSE Resolved(<<>>, flattenResults(rows))

\* the promise executor's hit branch (QueryJobs.js:134-138);
\* HitShapeUnflattened: the branch without its flatten case
HitShapeUnflattened(d, rc, rows) == IF rc = 0 THEN Resolved(<<>>, <<>>) ELSE Resolved(rows, <<>>)
HitShape(d, rc, rows) == Shape(d, rc, rows)

\* resolve/reject settle a promise once; a callback runs on every call
Deliver(job, val) ==
  [job EXCEPT !.calls = @ + 1,
              !.got = IF loadQueries[job.def] = "promise" /\ job.got.kind # "none" THEN @ ELSE val]

\* whether the query function goes on to push the job after the lookup
\* (res == null at QueryJobs.js:96 and :134); EnqueuesAlways: the early
\* return of the hit branch left out
EnqueuesAlways(res) == TRUE
Enqueues(res) == ~res.present

\* a query function is called: createJob, then either the cache lookup is
\* awaited or the job is pushed at once
Invoke(d, a) ==
  /\ left.jobs > 0
  /\ LET j == NewJob
         job == createJob(d, a)
     IN  IF job.cacheKey # ""
         THEN /\ jobs' = [jobs EXCEPT ![j] = [job EXCEPT !.pc = "get"]]
              /\ UNCHANGED requestQueue
         ELSE /\ jobs' = [jobs EXCEPT ![j] = [job EXCEPT !.pc = "live"]]
              /\ requestQueue' = Push(requestQueue, j)
  /\ left' = [left EXCEPT !.jobs = @ - 1]
  /\ UNCHANGED <<last, running, queueTimer, pool, workers, cache, timers>>

\* ResultCache.get resolves and the query function resumes
CacheGetReturn(j) ==
  /\ jobs[j].pc = "get"
  /\ LET job == jobs[j]
         res == cache[job.cacheKey]
         val == IF loadQueries[job.def] = "promise"
                THEN HitShape(job.def, res.rowCount, res.rows)
                ELSE Called("none", res.rowCount, res.rows)
     IN  /\ jobs' = [jobs EXCEPT ![j] =
                       IF res.present
                       THEN [Deliver(job, val) EXCEPT !.pc = IF Enqueues(res) THEN "live" ELSE "hit"]
                       ELSE [job EXCEPT !.pc = "live"]]
         /\ requestQueue' = IF Enqueues(res) THEN Push(requestQueue, j) ELSE requestQueue
  /\ UNCHANGED <<last, running, queueTimer, pool, workers, cache, timers, left>>

\* the store drops an entry whose time to live has passed
Expire(k) ==
  /\ cache[k].present
  /\ cache' = [cache EXCEPT ![k] = NoEntry]
  /\ UNCHANGED <<last, running, queueTimer, pool, requestQueue, workers, jobs, timers, left>>

CacheSet(c, key, rc, rows, val) == IF key = "" THEN c ELSE [c EXCEPT ![key] = Entry(rc, rows, val)]

Retryable(err) == err \in {"ETIMEOUT", "ESOCKET"}

\* getCallbackHandler's handler runs for a completed request of job j
CallbackHandler(j, out) ==
  LET job == [jobs[j] EXCEPT !.inflight = @ - 1, !.err = out.err]
  IN  /\ cache' = CacheSet(cache, job.cacheKey, out.rowCount, out.rows,
                            IF job.worker = 0 THEN NoVal
                            ELSE Called(out.err, out.rowCount, out.rows))
      /\ IF job.worker = 0
         THEN \* job.worker.status on null: TypeError, the callback is not reached
              /\ jobs' = [jobs EXCEPT ![j] = job]
              /\ UNCHANGED workers
         ELSE /\ workers' = [workers EXCEPT ![job.worker].status = STATUS.IDLE]
              /\ jobs' = [jobs EXCEPT ![j] = Deliver(job, Called(out.err, out.rowCount, out.rows))]
      /\ UNCHANGED requestQueue

\* getPromiseHandler's handler runs for a completed request of job j
PromiseHandler(j, out) ==
  LET job == [jobs[j] EXCEPT !.inflight = @ - 1, !.err = out.err]
  IN  IF out.err # "none"
      THEN IF Retryable(out.err)
           THEN IF job.worker = 0
                THEN /\ jobs' = [jobs EXCEPT ![j] = job]
                     /\ UNCHANGED <<workers, requestQueue, cache>>
                ELSE /\ workers' = [workers EXCEPT ![job.worker].status = STATUS.FAIL]
                     /\ jobs' = [jobs EXCEPT ![j] = [job EXCEPT !.worker = 0]]
                     /\ requestQueue' = Push(requestQueue, j)
                     /\ UNCHANGED cache
           ELSE /\ jobs' = [jobs EXCEPT ![j] = Deliver(job, Rejected)]
                /\ UNCHANGED <<workers, requestQueue, cache>>
      ELSE /\ cache' = CacheSet(cache, job.cacheKey, out.rowCount, out.rows,
                                 IF job.worker = 0 THEN NoVal
                                 ELSE Shape(job.def, out.rowCount, out.rows))
           /\ IF job.worker = 0
              THEN /\ jobs' = [jobs EXCEPT ![j] = job]
                   /\ UNCHANGED workers
              ELSE /\ workers' = [workers EXCEPT ![job.worker].status = STATUS.IDLE]
                   /\ jobs' = [jobs EXCEPT ![j] = Deliver(job, Shape(job.def, out.rowCount, out.rows))]
           /\ UNCHANGED requestQueue

\* the driver completes a request: job.resultHandler(err, rowCount, rows)
Complete(j, out) ==
  /\ out.err # "none" => left.faults > 0
  /\ jobs[j].inflight > 0
  /\ IF loadQueries[jobs[j].def] = "promise" THEN PromiseHandler(j, out) ELSE CallbackHandler(j, out)
  /\ UNCHANGED <<last, running, queueTimer, pool, timers>>
  /\ left' = IF out.err # "none" THEN [left EXCEPT !.faults = @ - 1] ELSE left

----------------------------------------------------------------------------
(* SQLServerPool.js: acquireWorker, #queueProc, the connection listeners *)

\* SQLServerPool.js:104
SlowTimer == 2000
\* SQLServerPool.js:114: floor and step of the polling interval
TimerFloor == 10
TimerStep == 10
\* SQLServerPool.js:18 and :115: initial value and ceiling of the interval
TimerCeiling == 100

\* the scan of acquireWorker (lines 39-49), from the newest worker down:
\* the first IDLE worker ends it, and so does the first FAIL worker (the
\* TypeError of line 47)
RECURSIVE Scan(_, _)
Scan(p, i) ==
  IF i = 0 THEN [kind |-> "none", i |-> 0]
  ELSE IF workers[p[i]].status = STATUS.IDLE THEN [kind |-> "idle", i |-> i]
  ELSE IF workers[p[i]].status = STATUS.FAIL THEN [kind |-> "broken", i |-> i]
  ELSE Scan(p, i - 1)

\* SQLServerPool.js:52; PoolFullOffByOne: the test written with >
PoolFullOffByOne(p) == Len(p) > MAX_POOL
PoolFull(p) == Len(p) >= MAX_POOL

NewWorker == CHOOSE w \in WorkerIds :
  workers[w].status = NoWorker /\ \A i \in 1..(w - 1) : workers[i].status # NoWorker

\* SQLServerPool.js:95; ShiftLast/AfterShiftLast: pop() in place of shift()
ShiftLast(q) == q[Len(q)]
Shift(q) == Head(q)
AfterShiftLast(q) == SubSeq(q, 1, Len(q) - 1)
AfterShift(q) == Tail(q)

\* SQLServerPool.js:90 and :112; KeepsRunningAlways: the flag not consulted
KeepsRunningAlways == TRUE
KeepsRunning == running

\* the interval is explored left.fast steps below its ceiling and
\* MaxSlowTicks steps below SlowTimer
TickBound ==
  \/ queueTimer <= TimerCeiling /\ queueTimer > TimerCeiling - TimerStep * left.fast
  \/ queueTimer > SlowTimer - TimerStep * MaxSlowTicks

\* lines 112-116: t pending callbacks before the tick reschedules itself;
\* RescheduleUnclamped: the step applied without Math.max and Math.min
RescheduleUnclamped(q, t) ==
  IF KeepsRunning
  THEN /\ TickBound
       /\ timers' = t + 1
       /\ queueTimer' = IF Len(q) > 0 THEN queueTimer - TimerStep
                        ELSE queueTimer + TimerStep
  ELSE /\ timers' = t
       /\ UNCHANGED queueTimer
Reschedule(q, t) ==
  IF KeepsRunning
  THEN /\ TickBound
       /\ timers' = t + 1
       /\ queueTimer' = IF Len(q) > 0 THEN Max(TimerFloor, queueTimer - TimerStep)
                        ELSE Min(TimerCeiling, queueTimer + TimerStep)
  ELSE /\ timers' = t
       /\ UNCHANGED queueTimer

\* lines 94-116: the tick after acquireWorker() resolved to worker w (0 for
\* null); wk is the workers' state at that point
TickRest(w, wk, t) ==
  IF w # 0 /\ requestQueue = <<>>
  THEN \* shift() yields undefined: the listener is installed, then
       \* job.worker = worker throws and the tick ends without rescheduling
       /\ workers' = [wk EXCEPT ![w].sock = -1]
       /\ timers' = t
       /\ UNCHANGED <<requestQueue, jobs, queueTimer>>
  ELSE IF w # 0
  THEN LET j == Shift(requestQueue)
           q == AfterShift(requestQueue)
       IN  /\ jobs[j].issued < MaxIssue
           /\ requestQueue' = q
           /\ workers' = [wk EXCEPT ![w].sock = j, ![w].status = STATUS.BUSY]
           /\ jobs' = [jobs EXCEPT ![j].worker = w, ![j].inflight = @ + 1, ![j].issued = @ + 1]
           /\ Reschedule(q, t)
  ELSE /\ workers' = wk
       /\ UNCHANGED <<requestQueue, jobs>>
       /\ Reschedule(requestQueue, t)

Callers == {"tick", "ext"}

\* a timer callback of #queueProc is due, the pool runs and the queue has
\* entries (lines 90-93); an outside caller may call acquireWorker any time
Calls(c) == c = "tick" => (timers > 0 /\ KeepsRunning /\ requestQueue # <<>>)

\* the record of an acquireWorker() call that settles its promise with out
\* ("worker", "null", "rejected", or "pending" while the connection is
\* awaited); cap: the scan of lines 39-49 took or evicted nothing and the
\* pool held MAX_POOL workers
Settled(out) ==
  [out |-> out,
   cap |-> Scan(pool, Len(pool)).kind = "none" /\ Len(pool) >= MAX_POOL]

\* #queueProc returns at line 90
TickStopped ==
  /\ timers > 0
  /\ ~KeepsRunning
  /\ timers' = timers - 1
  /\ UNCHANGED <<last, running, queueTimer, pool, requestQueue, workers, jobs, cache, left>>

\* #queueProc with an empty queue: lines 112-116 only
TickEmpty ==
  /\ timers > 0
  /\ KeepsRunning
  /\ requestQueue = <<>>
  /\ TickRest(0, workers, timers - 1)
  /\ UNCHANGED <<last, running, pool, cache, left>>

\* acquireWorker finds an IDLE worker (lines 40-42)
AcquireIdle(c) ==
  /\ Calls(c)
  /\ Scan(pool, Len(pool)).kind = "idle"
  /\ LET w == IF running THEN pool[Scan(pool, Len(pool)).i] ELSE 0
     IN  /\ IF c = "tick"
            THEN TickRest(w, workers, timers - 1)
            ELSE UNCHANGED <<requestQueue, workers, jobs, queueTimer, timers>>
  /\ UNCHANGED <<running, pool, cache, left>>
  /\ last' = Settled(IF running THEN "worker" ELSE "null")

\* acquireWorker meets a FAIL worker first (lines 45-48): the worker leaves
\* the pool, close() is never reached, the promise is rejected unless line
\* 36 resolved it; a tick awaiting it ends without rescheduling
AcquireBroken(c) ==
  /\ Calls(c)
  /\ Scan(pool, Len(pool)).kind = "broken"
  /\ pool' = RemoveAt(pool, Scan(pool, Len(pool)).i)
  /\ timers' = IF c = "tick" THEN timers - 1 ELSE timers
  /\ UNCHANGED <<running, queueTimer, requestQueue, workers, jobs, cache, left>>
  /\ last' = Settled(IF running THEN "rejected" ELSE "null")

\* acquireWorker at capacity (lines 52-53)
AcquireFull(c) ==
  /\ Calls(c)
  /\ Scan(pool, Len(pool)).kind = "none"
  /\ PoolFull(pool)
  /\ IF c = "tick"
     THEN TickRest(0, workers, timers - 1)
     ELSE UNCHANGED <<requestQueue, workers, jobs, queueTimer, timers>>
  /\ UNCHANGED <<running, pool, cache, left>>
  /\ last' = Settled("null")

\* acquireWorker builds a worker (lines 56-85), `con` read as worker.con
AcquireCreate(c) ==
  /\ Calls(c)
  /\ Scan(pool, Len(pool)).kind = "none"
  /\ ~PoolFull(pool)
  /\ left.workers > 0
  /\ LET w == NewWorker
     IN  /\ workers' = [workers EXCEPT ![w] =
                          [status |-> STATUS.NEW, conn |-> "connecting",
                           acq |-> IF running THEN c ELSE "none", sock |-> 0]]
         /\ pool' = Push(pool, w)
  /\ timers' = IF c = "tick" THEN timers - 1 ELSE timers
  /\ left' = [left EXCEPT !.workers = @ - 1]
  /\ UNCHANGED <<running, queueTimer, requestQueue, jobs, cache>>
  /\ last' = Settled(IF running THEN "pending" ELSE "null")

\* acquireWorker builds a worker and line 62 throws the ReferenceError: the
\* worker is not pushed and the promise is rejected unless line 36 resolved it
AcquireCreateThrows(c) ==
  /\ Calls(c)
  /\ Scan(pool, Len(pool)).kind = "none"
  /\ ~PoolFull(pool)
  /\ timers' = IF c = "tick" THEN timers - 1 ELSE timers
  /\ UNCHANGED <<running, queueTimer, pool, requestQueue, workers, jobs, cache, left>>
  /\ last' = Settled(IF running THEN "rejected" ELSE "null")

\* 'connect' without error (lines 62-66): IDLE, resolve(worker); a tick
\* awaiting the promise resumes
ConnectOk(w) ==
  /\ workers[w].conn = "connecting"
  /\ LET wk == [workers EXCEPT ![w].status = STATUS.IDLE, ![w].conn = "up", ![w].acq = "none"]
     IN  IF workers[w].acq = "tick"
         THEN /\ TickRest(w, wk, timers)
         ELSE /\ workers' = wk
              /\ UNCHANGED <<requestQueue, jobs, queueTimer, timers>>
  /\ UNCHANGED <<last, running, pool, cache, left>>

\* 'connect' with an error (line 63): logged, nothing resolved
ConnectErr(w) ==
  /\ left.faults > 0
  /\ workers[w].conn = "connecting"
  /\ workers' = [workers EXCEPT ![w].conn = "down"]
  /\ UNCHANGED <<last, running, queueTimer, pool, requestQueue, jobs, cache, timers>>
  /\ left' = [left EXCEPT !.faults = @ - 1]

\* 'error' (lines 70-75): FAIL, resolve(null); a tick awaiting resumes.  A
\* connection that reported an error while connecting emits no 'connect'
ConError(w) ==
  /\ left.faults > 0
  /\ workers[w].conn \in {"connecting", "up", "down"}
  /\ LET wk == [workers EXCEPT ![w].status = STATUS.FAIL, ![w].acq = "none",
                                ![w].conn = IF @ = "connecting" THEN "down" ELSE @]
     IN  IF workers[w].acq = "tick"
         THEN /\ TickRest(0, wk, timers)
         ELSE /\ workers' = wk
              /\ UNCHANGED <<requestQueue, jobs, queueTimer, timers>>
  /\ UNCHANGED <<last, running, pool, cache>>
  /\ left' = [left EXCEPT !.faults = @ - 1]

\* 'end' (lines 78-83): the worker leaves the pool
ConEnd(w) ==
  /\ left.faults > 0
  /\ workers[w].conn \in {"connecting", "up", "down"}
  /\ workers' = [workers EXCEPT ![w].conn = "ended"]
  /\ pool' = SelectSeq(pool, LAMBDA x : x # w)
  /\ UNCHANGED <<last, running, queueTimer, requestQueue, jobs, cache, timers>>
  /\ left' = [left EXCEPT !.faults = @ - 1]

\* where the socketError listener puts the job back (line 102); Unshift:
\* unshift() in place of push()
Unshift(q, j) == <<j>> \o q
Requeue(q, j) == Push(q, j)

\* 'socketError' on a worker carrying the listener of lines 98-105
SocketError(w) ==
  /\ left.faults > 0
  /\ workers[w].sock # 0
  /\ workers[w].conn = "up"
  /\ IF workers[w].sock = -1
     THEN \* the listener closed over an undefined job: FAIL, then TypeError
          /\ workers' = [workers EXCEPT ![w].status = STATUS.FAIL]
          /\ UNCHANGED <<jobs, requestQueue, queueTimer>>
     ELSE LET j == workers[w].sock
          IN  /\ workers' = [workers EXCEPT ![w].status = STATUS.FAIL, ![w].sock = 0]
              /\ jobs' = [jobs EXCEPT ![j].worker = 0]
              /\ requestQueue' = Requeue(requestQueue, j)
              /\ queueTimer' = SlowTimer
  /\ UNCHANGED <<last, running, pool, cache, timers>>
  /\ left' = [left EXCEPT !.faults = @ - 1]

\* start() (lines 123-126)
Start ==
  /\ left.starts > 0
  /\ running' = TRUE
  /\ timers' = timers + 1
  /\ left' = [left EXCEPT !.starts = @ - 1]
  /\ UNCHANGED <<last, queueTimer, pool, requestQueue, workers, jobs, cache>>

\* stop() (lines 131-133)
Stop ==
  /\ running' = FALSE
  /\ UNCHANGED <<last, queueTimer, pool, requestQueue, workers, jobs, cache, timers, left>>

\* #queueProc up to its await
QueueProc ==
  \/ TickStopped
  \/ TickEmpty
  \/ AcquireIdle("tick")
  \/ AcquireBroken("tick")
  \/ AcquireFull("tick")
  \/ AcquireCreate("tick")
  \/ AcquireCreateThrows("tick")

\* acquireWorker() called from outside the scheduler
acquireWorker ==
  \/ AcquireIdle("ext")
  \/ AcquireBroken("ext")
  \/ AcquireFull("ext")
  \/ AcquireCreate("ext")
  \/ AcquireCreateThrows("ext")

\* the pool, the scheduler and the driver's signals
PoolNext ==
  \/ \E j \in JobIds, out \in Outcomes : Complete(j, out)
  \/ QueueProc
  \/ \E w \in WorkerIds : ConnectOk(w)
  \/ \E w \in WorkerIds : ConnectErr(w)
  \/ \E w \in WorkerIds : ConError(w)
  \/ \E w \in WorkerIds : ConEnd(w)
  \/ \E w \in WorkerIds : SocketError(w)
  \/ Start
  \/ Stop

\* callers of the functions loaded without a cache policy
Next ==
  \/ \E in \in Invocations : Invoke(in[1], in[2])
  \/ PoolNext

Spec == Init /\ [][Next]_vars

\* the same with outside calls of acquireWorker()
BudgetAcquire == [starts |-> AcqStarts, faults |-> AcqFaults, workers |-> MaxWorkers, jobs |-> AcqJobs,
                  fast |-> AcqFastTicks]

NextAcquire ==
  \/ \E in \in Invocations : Invoke(in[1], in[2])
  \/ PoolNext
  \/ acquireWorker

InitAcquire == Construct /\ left = BudgetAcquire

SpecAcquire == InitAcquire /\ [][NextAcquire]_vars

\* callers of the functions loaded with a cache policy
BudgetCache == [starts |-> CacheStarts, faults |-> CacheFaults, workers |-> CacheWorkers, jobs |-> MaxJobs,
                fast |-> MaxFastTicks]

NextCache ==
  \/ \E in \in CachedInvocations : Invoke(in[1], in[2])
  \/ \E j \in JobIds : CacheGetReturn(j)
  \/ \E k \in CacheKeys : Expire(k)
  \/ PoolNext

InitCache == Construct /\ left = BudgetCache

SpecCache == InitCache /\ [][NextCache]_vars

\* the cached query functions alone, on every argument object, the pool
\* never started
BudgetKey == [starts |-> 0, faults |-> 0, workers |-> 0, jobs |-> MaxJobs, fast |-> 0]

NextKey ==
  \/ \E in \in KeyInvocations : Invoke(in[1], in[2])
  \/ \E j \in JobIds : CacheGetReturn(j)

InitKey == Construct /\ left = BudgetKey

SpecKey == InitKey /\ [][NextKey]_vars

\* the pool kept running, every connection attempt connecting: start() is
\* called once and stop() never, the driver emits neither 'error' nor 'end'
\* nor 'socketError', and a request may still complete with an error
BudgetLive == [starts |-> LiveStarts, faults |-> LiveFaults, workers |-> MaxWorkers, jobs |-> MaxJobs,
               fast |-> AcqFastTicks]

\* #queueProc while the pool runs; with two jobs a tick never meets a full
\* pool while the queue has entries, so lines 52-53 stay out of this run
QueueProcLive ==
  \/ TickEmpty
  \/ AcquireIdle("tick")
  \/ AcquireBroken("tick")
  \/ AcquireCreate("tick")
  \/ AcquireCreateThrows("tick")

NextLive ==
  \/ \E in \in Invocations : Invoke(in[1], in[2])
  \/ \E j \in JobIds, out \in Outcomes : Complete(j, out)
  \/ QueueProcLive
  \/ \E w \in WorkerIds : ConnectOk(w)
  \/ Start

InitLive == Construct /\ left = BudgetLive

\* the event loop runs every callback that is due: a pending timer callback
\* of #queueProc, the 'connect' event of every connection being opened, the
\* completion callback of every request in flight; and start() is called
FairLive ==
  /\ WF_vars(QueueProcLive)
  /\ \A w \in WorkerIds : WF_vars(ConnectOk(w))
  /\ \A j \in JobIds : WF_vars(\E out \in Outcomes : Complete(j, out))
  /\ WF_vars(Start)

SpecLive == InitLive /\ [][NextLive]_vars /\ FairLive

----------------------------------------------------------------------------
(* Properties *)

C2_FailIsFinal ==
  [][\A w \in WorkerIds :
       workers[w].status = STATUS.FAIL => workers'[w].status = STATUS.FAIL]_vars

\* C3: jobs are dispatched strictly first in, first out: the job a tick
\* assigns is the head of the queue and the tick removes exactly that element;
\* every other change of the queue appends one job at the tail.
C3_Fifo ==
  [][/\ \A j \in JobIds :
          jobs'[j].issued > jobs[j].issued =>
            /\ requestQueue # <<>>
            /\ j = Head(requestQueue)
            /\ requestQueue' = Tail(requestQueue)
     /\ requestQueue' # requestQueue =>
          \/ /\ requestQueue # <<>>
             /\ requestQueue' = Tail(requestQueue)
             /\ jobs'[Head(requestQueue)].issued > jobs[Head(requestQueue)].issued
          \/ \E j \in JobIds : requestQueue' = Append(requestQueue, j)]_vars

\* C3 case: job 1 was dispatched, failed and was put back behind job 2,
\* which entered the queue before that; both wait, a worker is idle and a
\* tick is due
C3_TwoQueued ==
  /\ requestQueue = <<2, 1>>
  /\ jobs[1].issued > 0
  /\ jobs[2].issued = 0
  /\ \E i \in 1..Len(pool) : workers[pool[i]].status = STATUS.IDLE
  /\ running
  /\ timers > 0

\* C4: when a request of a job completes with ETIMEOUT or ESOCKET the job is
\* in the queue exactly once afterwards, with its parameters and definition
\* unchanged; no job is ever in the queue twice.
C4_RequeuedOnce ==
  /\ [](\A j \in JobIds : Count(requestQueue, j) <= 1)
  /\ [][\A j \in JobIds :
          (jobs'[j].inflight < jobs[j].inflight /\ Retryable(jobs'[j].err)) =>
            /\ Count(requestQueue', j) = 1
            /\ jobs'[j].params = jobs[j].params
            /\ jobs'[j].def = jobs[j].def]_vars

\* C5: when the socketError listener installed for job j on worker w runs, w
\* becomes FAIL, j is appended at the tail of the queue with its worker
\* reference null, and the polling interval becomes 2000; the interval leaves
\* 2000 only when a tick reschedules itself, having used 2000 as its delay.
C5_SocketError ==
  /\ [][\A w \in WorkerIds :
          (workers[w].sock > 0 /\ workers'[w].sock = 0) =>
            /\ workers'[w].status = STATUS.FAIL
            /\ requestQueue' = Append(requestQueue, workers[w].sock)
            /\ jobs'[workers[w].sock].worker = 0
            /\ queueTimer' = SlowTimer]_vars
  /\ [][(queueTimer = SlowTimer /\ queueTimer' # SlowTimer) =>
          /\ timers' > 0
          /\ queueTimer' \in {SlowTimer - TimerStep, TimerCeiling}]_vars

\* C5 case: a socket error hit a worker while another job was waiting; the
\* failed job stands behind it, detached, and the interval is slow
C5_Requeued ==
  \E w \in WorkerIds, j \in JobIds :
    /\ workers[w].status = STATUS.FAIL
    /\ workers[w].sock = 0
    /\ Len(requestQueue) >= 2
    /\ requestQueue[Len(requestQueue)] = j
    /\ requestQueue[1] # j
    /\ jobs[j].worker = 0
    /\ jobs[j].issued > 0
    /\ queueTimer = SlowTimer

\* C6: when the cache lookup of a cached query function finds an entry, the
\* caller is completed from the entry and the queue, the pool and every
\* worker's status are left as they were: no job is created in the queue.
C6_HitBypasses ==
  [][\A j \in JobIds :
       (jobs[j].pc = "get" /\ jobs'[j].pc # "get" /\ cache[jobs[j].cacheKey].present) =>
         /\ UNCHANGED <<requestQueue, pool, workers>>
         /\ jobs'[j].calls = jobs[j].calls + 1
         /\ jobs'[j].got.kind \in {"callback", "resolve"}
         /\ jobs'[j].got.kind = "callback" =>
              /\ jobs'[j].got.rowCount = cache[jobs[j].cacheKey].rowCount
              /\ jobs'[j].got.raw = cache[jobs[j].cacheKey].rows
         /\ jobs'[j].issued = 0
         /\ jobs'[j].worker = 0]_vars

\* C6 case: a caller was answered from the cache while the pool holds a
\* worker and another job is known
C6_Hit ==
  \E j \in JobIds :
    /\ jobs[j].pc = "hit"
    /\ jobs[j].calls = 1
    /\ jobs[j].issued = 0
    /\ Count(requestQueue, j) = 0
    /\ Len(pool) > 0

\* C7: once a completion that succeeded has stored its result, a later
\* invocation with the same arguments whose lookup finds the entry enqueues
\* nothing and hands its caller exactly what the storing completion handed
\* to its own caller (empty list for zero rows, flattened rows if flatten).
C7_HitReplays ==
  [][\A j \in JobIds :
       (/\ jobs[j].pc = "get"
        /\ jobs'[j].pc # "get"
        /\ cache[jobs[j].cacheKey].present
        /\ cache[jobs[j].cacheKey].val.kind # "none"
        /\ cache[jobs[j].cacheKey].val.err = "none") =>
         /\ requestQueue' = requestQueue
         /\ jobs'[j].got = cache[jobs[j].cacheKey].val]_vars

\* C7 case: the first invocation ran on a worker and resolved with flattened
\* rows, the second was answered from the cache with the same value
C7_SameResult ==
  \E j1, j2 \in JobIds :
    /\ j1 # j2
    /\ jobs[j1].issued > 0
    /\ jobs[j1].got.kind = "resolve"
    /\ jobs[j1].got.flat # <<>>
    /\ jobs[j2].pc = "hit"
    /\ jobs[j2].cacheKey = jobs[j1].cacheKey
    /\ jobs[j2].got = jobs[j1].got

\* C8: for one query definition, two argument objects with the same key/value
\* pairs (recursively) have the same canonical serialization and the same
\* cache key, whatever the insertion order of their properties.
C8_KeyOrderInsensitive ==
  \A j1, j2 \in JobIds :
    (/\ jobs[j1].pc # "none"
     /\ jobs[j2].pc # "none"
     /\ jobs[j1].def = jobs[j2].def
     /\ SameContent(jobs[j1].params, jobs[j2].params)) =>
       /\ getCanonicalJSON(jobs[j1].params) = getCanonicalJSON(jobs[j2].params)
       /\ jobs[j1].cacheKey = jobs[j2].cacheKey

\* C8 case: two invocations of one function whose arguments differ in the
\* insertion order, at the top level and in a nested object
C8_Permuted ==
  \E j1, j2 \in JobIds :
    /\ jobs[j1].pc # "none"
    /\ jobs[j2].pc # "none"
    /\ jobs[j1].def = jobs[j2].def
    /\ jobs[j1].params = ArgA
    /\ jobs[j2].params = ArgB
    /\ jobs[j1].cacheKey = jobs[j2].cacheKey
    /\ jobs[j1].cacheKey # ""

\* C9 as worded: before start() is called no job is dequeued, assigned or
\* executed, and the queue holds the jobs in invocation order (job ids are
\* given in invocation order).
C9_InvocationOrder ==
  left.starts = CacheStarts =>
    /\ pool = <<>>
    /\ \A j \in JobIds : jobs[j].issued = 0 /\ jobs[j].inflight = 0 /\ jobs[j].worker = 0
    /\ \A j \in JobIds : jobs[j].pc = "live" => Count(requestQueue, j) = 1
    /\ \A i, k \in 1..Len(requestQueue) : i < k => requestQueue[i] < requestQueue[k]

\* C9: before start() is called no job is dequeued, assigned or executed;
\* every job whose query function has pushed it is in the queue once, and the
\* queue only grows at its tail, so it holds the jobs in the order of their
\* pushes (a cached function pushes after its lookup returned).
C9_QueuedUntilStart ==
  /\ [](left.starts = CacheStarts =>
          /\ pool = <<>>
          /\ \A j \in JobIds : jobs[j].issued = 0 /\ jobs[j].inflight = 0 /\ jobs[j].worker = 0
          /\ \A j \in JobIds : jobs[j].pc = "live" => Count(requestQueue, j) = 1)
  /\ [][(left'.starts = CacheStarts /\ requestQueue' # requestQueue) =>
          \E j \in JobIds :
            /\ jobs[j].pc = "get"
            /\ jobs'[j].pc = "live"
            /\ requestQueue' = Append(requestQueue, j)]_vars

\* C9 case: two invocations were made before start(), the lookup of the
\* second returned first, both jobs wait
C9_Waiting ==
  /\ left.starts = CacheStarts
  /\ requestQueue = <<2, 1>>
  /\ timers = 0

\* C10: a tick that begins while the pool is stopped changes nothing (it
\* dequeues no job and makes no acquireWorker() call) and does not
\* reschedule itself, and no timer is armed while the pool stays
\* stopped; stop() itself leaves queue, pool, workers and jobs untouched, and
\* a request in flight can still complete and run its result handler.
C10_StopHalts ==
  /\ [][(~running /\ timers' < timers) =>
          UNCHANGED <<requestQueue, pool, workers, jobs, queueTimer, last>>]_vars
  /\ [][(~running /\ ~running') => timers' <= timers]_vars
  /\ [][(running /\ ~running') =>
          UNCHANGED <<requestQueue, pool, workers, jobs, timers>>]_vars
  /\ [](\A j \in JobIds :
          (~running /\ jobs[j].inflight > 0) => ENABLED Complete(j, Ok(0, <<>>)))

\* C10 case: the pool was started and stopped, the pending tick has fired
\* without rescheduling, a request is in flight and a job stays queued
C10_Stopped ==
  /\ ~running
  /\ left.starts < MaxStarts
  /\ timers = 0
  /\ requestQueue # <<>>
  /\ \E j \in JobIds : jobs[j].inflight > 0

\* C11: a completion error other than ETIMEOUT and ESOCKET is terminal for a
\* promise-style job: the handler rejects the promise and leaves the queue
\* alone, and while that error is the job's latest completion no step pushes
\* the job onto the queue.
C11_TerminalRejects ==
  /\ [][\A j \in JobIds :
          (/\ loadQueries[jobs[j].def] = "promise"
           /\ jobs'[j].inflight < jobs[j].inflight
           /\ jobs'[j].err # "none"
           /\ ~Retryable(jobs'[j].err)) =>
             /\ requestQueue' = requestQueue
             /\ jobs'[j].calls = jobs[j].calls + 1
             /\ jobs[j].got.kind = "none" => jobs'[j].got.kind = "reject"]_vars
  /\ [][\A j \in JobIds :
          (/\ loadQueries[jobs[j].def] = "promise"
           /\ jobs[j].got.kind = "reject"
           /\ jobs[j].err # "none"
           /\ ~Retryable(jobs[j].err)
           /\ jobs'[j].err = jobs[j].err) =>
             Count(requestQueue', j) <= Count(requestQueue, j)]_vars

\* C12: every change of a worker's status is NEW -> IDLE (connect), IDLE ->
\* BUSY (assignment), BUSY -> IDLE (completion) or any -> FAIL.  A worker
\* object comes into being as NEW; the connect listener and the tick it
\* resumes run back to back, which shows as NEW -> BUSY on the step that
\* brings the connection up.
C12_Transitions ==
  [][\A w \in WorkerIds :
       workers'[w].status # workers[w].status =>
         \/ workers[w].status = NoWorker /\ workers'[w].status = STATUS.NEW
         \/ workers[w].status = STATUS.NEW /\ workers'[w].status = STATUS.IDLE
         \/ /\ workers[w].status = STATUS.NEW
            /\ workers'[w].status = STATUS.BUSY
            /\ workers[w].conn = "connecting"
            /\ workers'[w].conn = "up"
         \/ workers[w].status = STATUS.IDLE /\ workers'[w].status = STATUS.BUSY
         \/ workers[w].status = STATUS.BUSY /\ workers'[w].status = STATUS.IDLE
         \/ workers'[w].status = STATUS.FAIL]_vars

\* C13: a job in the queue has a null worker reference; two jobs with a
\* request in flight never reference the same worker; a job never has
\* requests in flight on two workers; a tick never assigns a job to a worker
\* whose status is BUSY.
C13_OneToOne ==
  /\ [](\A j \in JobIds : Count(requestQueue, j) > 0 => jobs[j].worker = 0)
  /\ [](\A j1, j2 \in JobIds :
          (/\ j1 # j2
           /\ jobs[j1].inflight > 0
           /\ jobs[j2].inflight > 0
           /\ jobs[j1].worker # 0) => jobs[j1].worker # jobs[j2].worker)
  /\ [](\A j \in JobIds : jobs[j].inflight <= 1)
  /\ [][\A j \in JobIds :
          jobs'[j].issued > jobs[j].issued =>
            workers[jobs'[j].worker].status # STATUS.BUSY]_vars

\* C14: when a result handler fires with a success or a terminal error, the
\* worker that served the job is IDLE afterwards, for both styles.
C14_ReleasedOnCompletion ==
  [][\A j \in JobIds :
       (/\ jobs'[j].inflight < jobs[j].inflight
        /\ ~Retryable(jobs'[j].err)
        /\ jobs[j].worker # 0) =>
          workers'[jobs[j].worker].status = STATUS.IDLE]_vars

\* C15: while the pool is not running an acquireWorker() call resolves null
\* and changes neither the pool nor any worker; while it stays stopped no
\* worker object is built, and a worker leaves the pool only because its
\* connection ended.
C15_StoppedAcquire ==
  /\ [][(~running /\ last' # last) =>
          /\ last'.out = "null"
          /\ UNCHANGED <<pool, workers>>]_vars
  /\ [][(~running /\ ~running') =>
          /\ \A w \in WorkerIds :
               workers[w].status = NoWorker => workers'[w].status = NoWorker
          /\ pool' # pool =>
               \E w \in WorkerIds :
                 /\ workers[w].conn # "ended"
                 /\ workers'[w].conn = "ended"
                 /\ pool' = SelectSeq(pool, LAMBDA x : x # w)]_vars

\* C16: once the connection attempt an acquireWorker() call started has
\* concluded, the call is resolved: after a successful connect the worker is
\* no longer NEW and nobody waits on the call; after a failed connect the
\* worker is FAIL and nobody waits on the call.
C16_ConnectConcludes ==
  \A w \in WorkerIds :
    /\ workers[w].conn = "up" =>
         workers[w].acq = "none" /\ workers[w].status # STATUS.NEW
    /\ workers[w].conn = "down" =>
         workers[w].acq = "none" /\ workers[w].status = STATUS.FAIL

\* C17: for a job carrying a cache key, a completion without error stores an
\* entry under the key, a completion with an error leaves the cache as it
\* was, and the cache changes in no other way than by such a store or by an
\* entry expiring.
C17_CacheOnSuccessOnly ==
  /\ [][\A j \in JobIds :
          (jobs'[j].inflight < jobs[j].inflight /\ jobs[j].cacheKey # "") =>
            IF jobs'[j].err = "none"
            THEN cache'[jobs[j].cacheKey].present
            ELSE cache' = cache]_vars
  /\ [][cache' # cache =>
          \/ \E j \in JobIds :
               /\ jobs'[j].inflight < jobs[j].inflight
               /\ jobs'[j].err = "none"
               /\ jobs[j].cacheKey # ""
          \/ \E k \in CacheKeys : cache' = [cache EXCEPT ![k] = NoEntry]]_vars

\* C18: a tick that reschedules moves the polling interval by the step 10:
\* down to no less than the floor 10 if the queue still has entries, up to
\* no more than the ceiling 100 if it is empty; from its start at 100 the
\* interval leaves the range 10..100 only when a socketError listener sets
\* it to 2000, and it never exceeds 2000.
C18_TimerSteps ==
  /\ [][(queueTimer' # queueTimer /\ queueTimer' # SlowTimer) =>
          queueTimer' = IF requestQueue' # <<>>
                        THEN Max(TimerFloor, queueTimer - TimerStep)
                        ELSE Min(TimerCeiling, queueTimer + TimerStep)]_vars
  /\ [][(TimerFloor <= queueTimer /\ queueTimer <= TimerCeiling) =>
          \/ TimerFloor <= queueTimer' /\ queueTimer' <= TimerCeiling
          \/ /\ queueTimer' = SlowTimer
             /\ \E w \in WorkerIds : workers[w].sock > 0 /\ workers'[w].sock = 0]_vars
  /\ [](TimerFloor <= queueTimer /\ queueTimer <= SlowTimer)

\* C18 case: ticks with a waiting job and a full pool brought the interval
\* down to the floor, and the next tick is armed
C18_AtFloor ==
  /\ queueTimer = TimerFloor
  /\ requestQueue # <<>>
  /\ Len(pool) = MAX_POOL
  /\ running
  /\ timers > 0

\* C19: at any time at most one scheduler tick is pending or in progress:
\* the armed timer callbacks of #queueProc and the ticks waiting on
\* acquireWorker() together number at most one.
C19_SingleTick ==
  timers + Cardinality({w \in WorkerIds : workers[w].acq = "tick"}) <= 1

\* C20: each invocation completes its caller at most once: a callback is
\* called at most once per job, and a settled promise keeps its outcome.
C20_AtMostOnce ==
  /\ [](\A j \in JobIds : loadQueries[jobs[j].def] = "callback" => jobs[j].calls <= 1)
  /\ [][\A j \in JobIds :
          (loadQueries[jobs[j].def] = "promise" /\ jobs[j].got.kind # "none") =>
            jobs'[j].got = jobs[j].got]_vars

\* C21: while the pool stays running, with every connection attempt
\* connecting, every request completing and every due tick and driver
\* callback run, every job on the queue is eventually dequeued and assigned
\* a worker, and a job whose request completed without a retryable error
\* eventually has its caller completed.
C21_Progress ==
  /\ \A j \in JobIds :
       (Count(requestQueue, j) > 0) ~> (jobs[j].worker # 0)
  /\ \A j \in JobIds :
       (jobs[j].issued > 0 /\ jobs[j].inflight = 0 /\ ~Retryable(jobs[j].err))
         ~> (jobs[j].calls > 0)

====
